---- MODULE Spec2Model ----
(***************************************************************************)
(* A model of package htree (github.com/bobg/htree/v2): predicate-driven   *)
(* search, lazy traversal, filtered enumeration, pruning and plain-text    *)
(* extraction over trees of html.Node.                                      *)
(*                                                                          *)
(* Memory is a sequence of node records (heap); a *html.Node is an index   *)
(* into it and nil is 0.  The caller's tree occupies 1..Len(orig); Prune    *)
(* allocates its copies behind it.  Every exported function is one action  *)
(* that applies the function, computed as the Go code computes it, to      *)
(* inputs drawn from bounded sets.                                          *)
(***************************************************************************)
EXTENDS Integers, Sequences, FiniteSets, TLC

\* ------------------------------------------------------------------ bounds
\* Largest number of nodes in the caller's tree.
MaxNodes == 4

\* Largest number of nodes in the trees WriteText and Text are run on.
MaxTextNodes == 3

\* Largest index of the sink write that may be made to fail (0: none fails).
MaxFailAt == 2

\* Largest number of nodes in the trees Indent and Indentln are run on.
MaxIndentNodes == 2

\* Largest level Indent and Indentln are called with.
MaxLevel == 1

\* The size of bufio.Writer's buffer, scaled down from 4096 so that a render
\* of a small tree fills it.
BufSize == 4

\* ------------------------------------------------------- html.Node values
Nil == 0

TextNode == "TextNode"
ElementNode == "ElementNode"

\* atom.Atom values the package compares against, and one it does not.
AtomNone == "none"
AtomDiv == "div"
AtomBr == "br"
AtomStyle == "style"
AtomScript == "script"

\* html.Node without its links: Type, DataAtom, Data, Attr.
DivLabel == [Type |-> ElementNode, DataAtom |-> AtomDiv, Data |-> <<"d", "i", "v">>,
             Attr |-> <<[Key |-> "class", Val |-> "c"]>>]
BrLabel == [Type |-> ElementNode, DataAtom |-> AtomBr, Data |-> <<"b", "r">>,
            Attr |-> <<>>]
StyleLabel == [Type |-> ElementNode, DataAtom |-> AtomStyle,
               Data |-> <<"s", "t", "y", "l", "e">>, Attr |-> <<>>]
ScriptLabel == [Type |-> ElementNode, DataAtom |-> AtomScript,
                Data |-> <<"s", "c", "r", "i", "p", "t">>, Attr |-> <<>>]
PlainTextLabel == [Type |-> TextNode, DataAtom |-> AtomNone, Data |-> <<"x">>,
                   Attr |-> <<>>]
\* The text "&amp;lt;&lt".
EntityData == <<"&", "a", "m", "p", ";", "l", "t", ";", "&", "l", "t">>
EntityTextLabel == [Type |-> TextNode, DataAtom |-> AtomNone, Data |-> EntityData,
                    Attr |-> <<>>]

\* Node contents the search, traversal and pruning operations are run on:
\* they look at Type only (and copy the rest).
SearchLabels == {DivLabel, PlainTextLabel}

\* Node contents WriteText is run on: every case of its two switches.
TextLabels == {DivLabel, BrLabel, StyleLabel, ScriptLabel, PlainTextLabel, EntityTextLabel}

DocumentNode == "DocumentNode"
DoctypeNode == "DoctypeNode"
CommentNode == "CommentNode"
RawNode == "RawNode"
ErrorNode == "ErrorNode"
\* A NodeType value the html package does not define.
UnknownNode == "NodeType(99)"

AtomP == "p"
AtomA == "a"
AtomHr == "hr"

\* Node contents Indent and Indentln are run on: every case of indent's
\* switch, and elements of each class.
DocumentLabel == [Type |-> DocumentNode, DataAtom |-> AtomNone, Data |-> <<>>, Attr |-> <<>>]
DoctypeLabel == [Type |-> DoctypeNode, DataAtom |-> AtomNone, Data |-> <<"h">>, Attr |-> <<>>]
CommentLabel == [Type |-> CommentNode, DataAtom |-> AtomNone, Data |-> <<"c">>, Attr |-> <<>>]
RawLabel == [Type |-> RawNode, DataAtom |-> AtomNone, Data |-> <<"&">>, Attr |-> <<>>]
ErrorLabel == [Type |-> ErrorNode, DataAtom |-> AtomNone, Data |-> <<>>, Attr |-> <<>>]
UnknownLabel == [Type |-> UnknownNode, DataAtom |-> AtomNone, Data |-> <<>>, Attr |-> <<>>]
\* <p k="&#34;">: a block element, its attribute value in need of escaping.
PLabel == [Type |-> ElementNode, DataAtom |-> AtomP, Data |-> <<"p">>,
           Attr |-> <<[Key |-> <<"k">>, Val |-> <<"\"">>]>>]
\* <a k>: an inline element with an attribute of empty value.
ALabel == [Type |-> ElementNode, DataAtom |-> AtomA, Data |-> <<"a">>,
           Attr |-> <<[Key |-> <<"k">>, Val |-> <<>>]>>]
HrLabel == [Type |-> ElementNode, DataAtom |-> AtomHr, Data |-> <<"h", "r">>, Attr |-> <<>>]
LtTextLabel == [Type |-> TextNode, DataAtom |-> AtomNone, Data |-> <<"<">>, Attr |-> <<>>]
\* A text that ends its line.
LineTextLabel == [Type |-> TextNode, DataAtom |-> AtomNone, Data |-> <<"y", "\n">>,
                  Attr |-> <<>>]
EmptyTextLabel == [Type |-> TextNode, DataAtom |-> AtomNone, Data |-> <<>>, Attr |-> <<>>]

IndentLabels == {DocumentLabel, DoctypeLabel, CommentLabel, RawLabel, ErrorLabel,
                 UnknownLabel, PLabel, ALabel, BrLabel, HrLabel, ScriptLabel,
                 LtTextLabel, LineTextLabel, EmptyTextLabel}

\* --------------------------------------------------------- tree building
RECURSIVE AncSelf(_, _)
\* The nodes on the path from k up to the root, k included, under parent
\* function p (p[k] < k).
AncSelf(p, k) == IF k = Nil THEN {} ELSE {k} \cup AncSelf(p, p[k])

\* Parent functions of the ordered trees of n nodes numbered in document
\* (preorder) order: node i hangs under a node of the rightmost path of the
\* tree built from 1..i-1.
ParentFns(n) ==
    {p \in [1..n -> 0..(n - 1)] :
        /\ p[1] = Nil
        /\ \A i \in 2..n : p[i] < i /\ p[i] # Nil
        /\ \A i \in 2..n : p[i] \in AncSelf(p, i - 1)}

SetMin(S) == CHOOSE x \in S : \A y \in S : x <= y
SetMax(S) == CHOOSE x \in S : \A y \in S : x >= y
MinOrNil(S) == IF S = {} THEN Nil ELSE SetMin(S)
MaxOrNil(S) == IF S = {} THEN Nil ELSE SetMax(S)

\* The html.Node records of the tree with parent function p and contents
\* lab, linked as html.Parse (or AppendChild) links them.
BuildHeap(n, p, lab) ==
    [i \in 1..n |->
        [Type |-> lab[i].Type, DataAtom |-> lab[i].DataAtom,
         Data |-> lab[i].Data, Attr |-> lab[i].Attr,
         Parent |-> p[i],
         FirstChild |-> MinOrNil({j \in 1..n : p[j] = i}),
         LastChild |-> MaxOrNil({j \in 1..n : p[j] = i}),
         PrevSibling |-> MaxOrNil({j \in 1..n : j < i /\ p[j] = p[i] /\ p[i] # Nil}),
         NextSibling |-> MinOrNil({j \in 1..n : j > i /\ p[j] = p[i] /\ p[i] # Nil})]]

\* ------------------------------------------------------------------ state
VARIABLES
    orig,     \* the caller's tree as constructed (never written: for comparison)
    heap,     \* memory: the caller's tree, then the nodes Prune allocates
    op,       \* the function called ("" before the call)
    start,    \* its node argument
    P,        \* its pred argument: the set of nodes pred returns true for
    stopAt,   \* the consumer breaks out of the range loop at this yield (0: never)
    ret,      \* the node returned (Find, Prune), Nil for nil
    log,      \* the calls made to pred and to yield, in order, with what each returned
    cont,     \* what the outermost walk/findAll/findAllChildren call returned
    out,      \* the bytes the sink has accepted
    err,      \* whether the call returned a non-nil error
    failAt,   \* the sink fails its failAt-th Write (0: never)
    predNil,  \* whether the pred argument is a nil func
    panicked, \* whether the call panicked instead of returning
    level,    \* the level argument of Indent and Indentln
    bolw      \* the bolwriter and the bufio.Writer under it as the call left them

vars == <<orig, heap, op, start, P, stopAt, ret, log, cont, out, err, failAt,
          predNil, panicked, level, bolw>>

\* The variables only FindEl, FindAllChildEls, Indent and Indentln set.
later == <<predNil, panicked, level, bolw>>

Nodes == 1..Len(orig)

InitWith(labels, max) ==
    /\ \E n \in 1..max : \E p \in ParentFns(n) : \E lab \in [1..n -> labels] :
          orig = BuildHeap(n, p, lab)
    /\ heap = orig
    /\ op = ""
    /\ start = Nil
    /\ P = {}
    /\ stopAt = 0
    /\ ret = Nil
    /\ log = <<>>
    /\ cont = TRUE
    /\ out = <<>>
    /\ err = FALSE
    /\ failAt = 0
    /\ predNil = FALSE
    /\ panicked = FALSE
    /\ level = 0
    /\ bolw = <<>>

Init == InitWith(SearchLabels, MaxNodes)

InitText == InitWith(TextLabels, MaxTextNodes)

InitIndent == InitWith(IndentLabels, MaxIndentNodes)

\* ------------------------------------------------------- pred and yield
\* A call of pred on node: its result, and the call appended to the log.
CallPred(t, Pset, node) ==
    [t |-> [t EXCEPT !.log = Append(@, [ev |-> "pred", node |-> node, ret |-> node \in Pset])],
     ok |-> node \in Pset]

NumYields(l) == Cardinality({i \in 1..Len(l) : l[i].ev = "yield"})

\* A call of yield on node: the body of the consumer's range loop runs, and
\* yield returns false when the body breaks.
CallYield(t, node) ==
    LET k == NumYields(t.log) + 1
        go == ~(t.stopAt # 0 /\ k >= t.stopAt)
    IN [t |-> [t EXCEPT !.log = Append(@, [ev |-> "yield", node |-> node, ret |-> go])],
        ok |-> go]

\* ------------------------------------------------------------------ Find
RECURSIVE Find(_, _, _, _)
RECURSIVE FindChildren(_, _, _, _)

\* Mutant of FindChildren: the loop does not return at the first child that
\* found something, and returns what the last such child found.
FindChildrenKeepsGoing(h, t, Pset, child) ==
    IF child = Nil THEN [t |-> t, ret |-> Nil]
    ELSE LET f == Find(h, t, Pset, child)
             r == FindChildren(h, f.t, Pset, h[child].NextSibling)
         IN IF r.ret # Nil THEN r ELSE [t |-> r.t, ret |-> f.ret]

\* The for loop of Find over the sibling chain starting at child.
FindChildren(h, t, Pset, child) ==
    IF child = Nil THEN [t |-> t, ret |-> Nil]
    ELSE LET f == Find(h, t, Pset, child)
         IN IF f.ret # Nil THEN f
            ELSE FindChildren(h, f.t, Pset, h[child].NextSibling)

Find(h, t, Pset, tree) ==
    LET c == CallPred(t, Pset, tree)
    IN IF c.ok THEN [t |-> c.t, ret |-> tree]
       ELSE IF h[tree].Type = TextNode THEN [t |-> c.t, ret |-> Nil]
       ELSE FindChildren(h, c.t, Pset, h[tree].FirstChild)

\* A fresh trace: nothing called yet, the consumer stopping at yield k.
NewTrace(k) == [log |-> <<>>, stopAt |-> k]

DoFind ==
    /\ op = ""
    /\ \E n \in Nodes, Pset \in SUBSET Nodes :
        LET r == Find(heap, NewTrace(0), Pset, n)
        IN /\ op' = "Find"
           /\ start' = n
           /\ P' = Pset
           /\ ret' = r.ret
           /\ log' = r.t.log
    /\ UNCHANGED <<orig, heap, stopAt, cont, out, err, failAt>>
    /\ UNCHANGED later

\* ------------------------------------------------------------------ Walk
RECURSIVE walk(_, _, _)
RECURSIVE walkChildren(_, _, _)

\* Mutant of walkChildren: the loop visits the first child only.
walkChildrenFirstOnly(h, t, child) ==
    IF child = Nil THEN [t |-> t, ok |-> TRUE]
    ELSE walk(h, t, child)

\* The for loop of walk over the sibling chain starting at child.
walkChildren(h, t, child) ==
    IF child = Nil THEN [t |-> t, ok |-> TRUE]
    ELSE LET w == walk(h, t, child)
         IN IF ~w.ok THEN [t |-> w.t, ok |-> FALSE]
            ELSE walkChildren(h, w.t, h[child].NextSibling)

walk(h, t, node) ==
    IF h[node].Type = TextNode THEN [t |-> t, ok |-> TRUE]
    ELSE LET y == CallYield(t, node)
         IN IF ~y.ok THEN [t |-> y.t, ok |-> FALSE]
            ELSE walkChildren(h, y.t, h[node].FirstChild)

\* for n := range Walk(tree) { ...; if <stopAt nodes seen> { break } }
DoWalk ==
    /\ op = ""
    /\ \E n \in Nodes, k \in 0..Len(orig) :
        LET r == walk(heap, NewTrace(k), n)
        IN /\ op' = "Walk"
           /\ start' = n
           /\ stopAt' = k
           /\ log' = r.t.log
           /\ cont' = r.ok
    /\ UNCHANGED <<orig, heap, P, ret, out, err, failAt>>
    /\ UNCHANGED later

\* --------------------------------------------- FindAll, FindAllChildren
RECURSIVE findAll(_, _, _, _)
RECURSIVE findAllChildren(_, _, _, _)
RECURSIVE findAllLoop(_, _, _, _)

\* Mutant of findAllLoop: the loop ignores what findAll returned.
findAllLoopIgnoresStop(h, t, Pset, child) ==
    IF child = Nil THEN [t |-> t, ok |-> TRUE]
    ELSE findAllLoop(h, findAll(h, t, Pset, child).t, Pset, h[child].NextSibling)

\* The for loop of findAllChildren over the sibling chain starting at child.
findAllLoop(h, t, Pset, child) ==
    IF child = Nil THEN [t |-> t, ok |-> TRUE]
    ELSE LET f == findAll(h, t, Pset, child)
         IN IF ~f.ok THEN [t |-> f.t, ok |-> FALSE]
            ELSE findAllLoop(h, f.t, Pset, h[child].NextSibling)

findAllChildren(h, t, Pset, node) ==
    IF h[node].Type = TextNode THEN [t |-> t, ok |-> TRUE]
    ELSE findAllLoop(h, t, Pset, h[node].FirstChild)

\* Mutant of findAll: a node that passes pred is yielded and then descended
\* into all the same.
findAllDescendsIntoMatch(h, t, Pset, node) ==
    LET c == CallPred(t, Pset, node)
    IN IF c.ok
       THEN LET y == CallYield(c.t, node)
            IN IF ~y.ok THEN y ELSE findAllChildren(h, y.t, Pset, node)
       ELSE findAllChildren(h, c.t, Pset, node)

findAll(h, t, Pset, node) ==
    LET c == CallPred(t, Pset, node)
    IN IF c.ok THEN CallYield(c.t, node)
       ELSE findAllChildren(h, c.t, Pset, node)

\* for n := range FindAll(tree, pred) { ...; if <stopAt nodes seen> { break } }
DoFindAll ==
    /\ op = ""
    /\ \E n \in Nodes, Pset \in SUBSET Nodes, k \in 0..Len(orig) :
        LET r == findAll(heap, NewTrace(k), Pset, n)
        IN /\ op' = "FindAll"
           /\ start' = n
           /\ P' = Pset
           /\ stopAt' = k
           /\ log' = r.t.log
           /\ cont' = r.ok
    /\ UNCHANGED <<orig, heap, ret, out, err, failAt>>
    /\ UNCHANGED later

\* for n := range FindAllChildren(node, pred) { ... }
DoFindAllChildren ==
    /\ op = ""
    /\ \E n \in Nodes, Pset \in SUBSET Nodes, k \in 0..Len(orig) :
        LET r == findAllChildren(heap, NewTrace(k), Pset, n)
        IN /\ op' = "FindAllChildren"
           /\ start' = n
           /\ P' = Pset
           /\ stopAt' = k
           /\ log' = r.t.log
           /\ cont' = r.ok
    /\ UNCHANGED <<orig, heap, ret, out, err, failAt>>
    /\ UNCHANGED later

\* ----------------------------------------------------------------- Prune
RECURSIVE Prune(_, _, _, _)
RECURSIVE PruneChildren(_, _, _, _, _)

\* Mutant of PruneChildren: a pruned child ends the loop (break for continue).
PruneChildrenStopsAtPruned(h, t, Pset, child, children) ==
    IF child = Nil THEN [h |-> h, t |-> t, children |-> children]
    ELSE LET r == Prune(h, t, Pset, child)
         IN IF r.ret = Nil THEN [h |-> r.h, t |-> r.t, children |-> children]
            ELSE PruneChildren(r.h, r.t, Pset, r.h[child].NextSibling,
                               Append(children, r.ret))

\* The first for loop of Prune, over the sibling chain starting at child:
\* the pruned copies of the children that are kept, in order.
PruneChildren(h, t, Pset, child, children) ==
    IF child = Nil THEN [h |-> h, t |-> t, children |-> children]
    ELSE LET r == Prune(h, t, Pset, child)
         IN PruneChildren(r.h, r.t, Pset, r.h[child].NextSibling,
                          IF r.ret = Nil THEN children ELSE Append(children, r.ret))

RECURSIVE RelinkFrom(_, _, _)
\* Iterations i.. of the second for loop of Prune.
RelinkFrom(h, children, i) ==
    IF i > Len(children) THEN h
    ELSE RelinkFrom(
            [h EXCEPT ![children[i]].PrevSibling =
                          IF i = 1 THEN Nil ELSE children[i - 1],
                      ![children[i]].NextSibling =
                          IF i = Len(children) THEN Nil ELSE children[i + 1]],
            children, i + 1)

\* Mutant of Relink: the last child's NextSibling is left as it was copied.
RelinkKeepsLastNext(h, children) ==
    IF children = <<>> THEN h
    ELSE LET l == children[Len(children)]
         IN [RelinkFrom(h, children, 1) EXCEPT ![l].NextSibling = h[l].NextSibling]

\* The second for loop of Prune: the sibling links of the kept copies.
Relink(h, children) == RelinkFrom(h, children, 1)

\* Mutant of CopyNode: result := node, so that the result is the node itself.
CopyNodeInPlace(h, node, children) ==
    LET rec == [h[node] EXCEPT
                    !.FirstChild = IF Len(children) > 0 THEN children[1] ELSE Nil,
                    !.LastChild = IF Len(children) > 0 THEN children[Len(children)] ELSE Nil]
    IN [h |-> [h EXCEPT ![node] = rec], ret |-> node]

\* result := *node, its FirstChild and LastChild set, and &result: a new node.
CopyNode(h, node, children) ==
    LET rec == [h[node] EXCEPT
                    !.FirstChild = IF Len(children) > 0 THEN children[1] ELSE Nil,
                    !.LastChild = IF Len(children) > 0 THEN children[Len(children)] ELSE Nil]
    IN [h |-> Append(h, rec), ret |-> Len(h) + 1]

Prune(h, t, Pset, node) ==
    LET c == CallPred(t, Pset, node)
    IN IF c.ok THEN [h |-> h, t |-> c.t, ret |-> Nil]
       ELSE LET k == PruneChildren(h, c.t, Pset, h[node].FirstChild, <<>>)
                r == CopyNode(Relink(k.h, k.children), node, k.children)
            IN [h |-> r.h, t |-> k.t, ret |-> r.ret]

DoPrune ==
    /\ op = ""
    /\ \E n \in Nodes, Pset \in SUBSET Nodes :
        LET r == Prune(heap, NewTrace(0), Pset, n)
        IN /\ op' = "Prune"
           /\ start' = n
           /\ P' = Pset
           /\ heap' = r.h
           /\ ret' = r.ret
           /\ log' = r.t.log
    /\ UNCHANGED <<orig, stopAt, cont, out, err, failAt>>
    /\ UNCHANGED later

\* ------------------------------------------------------ WriteText, Text
\* The characters html.UnescapeString takes for an entity name.
Alnum == {"a", "b", "d", "i", "l", "m", "p", "r", "t", "v", "x"}

\* The entries of the html package's entity table the texts here can name.
Entity(name) ==
    CASE name = <<"a", "m", "p", ";">> -> <<"&">>
      [] name = <<"a", "m", "p">> -> <<"&">>
      [] name = <<"l", "t", ";">> -> <<"<">>
      [] name = <<"l", "t">> -> <<"<">>
      [] OTHER -> <<>>

RECURSIVE AlnumRun(_)
\* The length of the longest prefix of s made of name characters.
AlnumRun(s) == IF s # <<>> /\ Head(s) \in Alnum THEN 1 + AlnumRun(Tail(s)) ELSE 0

RECURSIVE PrefixEntity(_, _)
\* The longest prefix of name, of j characters at most and 2 at least, that
\* is an entity written without its semicolon (0: none).
PrefixEntity(name, j) ==
    IF j <= 1 THEN 0
    ELSE IF Entity(SubSeq(name, 1, j)) # <<>> THEN j
    ELSE PrefixEntity(name, j - 1)

RECURSIVE UnescapeString(_)
\* html.UnescapeString: each entity replaced by its character, in one pass.
UnescapeString(s) ==
    IF s = <<>> THEN <<>>
    ELSE IF Head(s) # "&" THEN <<Head(s)>> \o UnescapeString(Tail(s))
    ELSE LET rest == Tail(s)
             run == AlnumRun(rest)
             len == IF run < Len(rest) /\ rest[run + 1] = ";" THEN run + 1 ELSE run
             name == SubSeq(rest, 1, len)
             j == PrefixEntity(name, len - 1)
         IN IF len = 0 THEN <<"&">> \o UnescapeString(rest)
            ELSE IF Entity(name) # <<>>
            THEN Entity(name) \o UnescapeString(SubSeq(rest, len + 1, Len(rest)))
            ELSE IF j # 0
            THEN Entity(SubSeq(name, 1, j)) \o UnescapeString(SubSeq(rest, j + 1, Len(rest)))
            ELSE <<"&">> \o name \o UnescapeString(SubSeq(rest, len + 1, Len(rest)))

\* The sink: the bytes it accepted, the Write calls made, the call that fails.
NewWriter(f) == [out |-> <<>>, writes |-> 0, failAt |-> f]

\* w.Write(p): the bytes are accepted, or the call fails and accepts none.
Write(w, p) ==
    LET n == w.writes + 1
    IN IF w.failAt # 0 /\ n >= w.failAt
       THEN [w |-> [w EXCEPT !.writes = n], err |-> TRUE]
       ELSE [w |-> [w EXCEPT !.writes = n, !.out = @ \o p], err |-> FALSE]

RECURSIVE WriteText(_, _, _)
RECURSIVE WriteTextChildren(_, _, _)

\* Mutant of WriteTextChildren: the loop runs over the children backwards.
WriteTextChildrenBackwards(h, w, child) ==
    IF child = Nil THEN [w |-> w, err |-> FALSE]
    ELSE LET r == WriteTextChildren(h, w, h[child].NextSibling)
         IN IF r.err THEN r ELSE WriteText(h, r.w, child)

\* The for loop of WriteText over the sibling chain starting at child.
WriteTextChildren(h, w, child) ==
    IF child = Nil THEN [w |-> w, err |-> FALSE]
    ELSE LET r == WriteText(h, w, child)
         IN IF r.err THEN r ELSE WriteTextChildren(h, r.w, h[child].NextSibling)

WriteText(h, w, node) ==
    IF h[node].Type = TextNode
    THEN LET r == Write(w, UnescapeString(h[node].Data))
         IN IF r.err THEN r ELSE WriteTextChildren(h, r.w, h[node].FirstChild)
    ELSE IF h[node].Type = ElementNode /\ h[node].DataAtom = AtomBr
    THEN Write(w, <<"\n">>)
    ELSE IF h[node].Type = ElementNode /\ h[node].DataAtom \in {AtomScript, AtomStyle}
    THEN [w |-> w, err |-> FALSE]
    ELSE WriteTextChildren(h, w, h[node].FirstChild)

\* WriteText(w, node) on a sink that fails its f-th Write (f = 0: never).
DoWriteText ==
    /\ op = ""
    /\ \E n \in Nodes, f \in 0..MaxFailAt :
        LET r == WriteText(heap, NewWriter(f), n)
        IN /\ op' = "WriteText"
           /\ start' = n
           /\ failAt' = f
           /\ out' = r.w.out
           /\ err' = r.err
    /\ UNCHANGED <<orig, heap, P, stopAt, ret, log, cont>>
    /\ UNCHANGED later

\* Text(node): WriteText into a bytes.Buffer, whose Write never fails.
DoText ==
    /\ op = ""
    /\ \E n \in Nodes :
        LET r == WriteText(heap, NewWriter(0), n)
        IN /\ op' = "Text"
           /\ start' = n
           /\ out' = r.w.out
           /\ err' = r.err
    /\ UNCHANGED <<orig, heap, P, stopAt, ret, log, cont, failAt>>
    /\ UNCHANGED later

\* ------------------------------------------------ FindEl, FindAllChildEls
\* elPred(pred): the nodes on which the predicate it returns does not return
\* false.  They are the Element nodes on which pred is true; when pred is
\* nil they are all the Element nodes, and on them the call pred(n) is a
\* call of a nil func, which panics.
elPred(h, Pset, isNil) ==
    {n \in 1..Len(h) : h[n].Type = ElementNode /\ (isNil \/ n \in Pset)}

\* FindEl(tree, pred), pred nil or not.  A panic unwinds Find from the call
\* of pred it happens in, as a match does.
DoFindEl ==
    /\ op = ""
    /\ \E n \in Nodes, Pset \in SUBSET Nodes, isNil \in BOOLEAN :
        LET r == Find(heap, NewTrace(0), elPred(heap, Pset, isNil), n)
        IN /\ isNil => Pset = {}
           /\ op' = "FindEl"
           /\ start' = n
           /\ P' = Pset
           /\ predNil' = isNil
           /\ panicked' = (isNil /\ r.ret # Nil)
           /\ ret' = IF isNil THEN Nil ELSE r.ret
           /\ log' = r.t.log
    /\ UNCHANGED <<orig, heap, stopAt, cont, out, err, failAt, level, bolw>>

\* for c := range FindAllChildEls(node, pred) { ... }, pred nil or not, the
\* loop breaking at its k-th node.  A panic unwinds findAll from the call of
\* pred it happens in, before the yield that follows a match.
DoFindAllChildEls ==
    /\ op = ""
    /\ \E n \in Nodes, Pset \in SUBSET Nodes, k \in 0..Len(orig), isNil \in BOOLEAN :
        LET r == findAllChildren(heap, NewTrace(IF isNil THEN 1 ELSE k),
                                 elPred(heap, Pset, isNil), n)
        IN /\ isNil => Pset = {} /\ k = 0
           /\ op' = "FindAllChildEls"
           /\ start' = n
           /\ P' = Pset
           /\ stopAt' = k
           /\ predNil' = isNil
           /\ panicked' = (isNil /\ ~r.ok)
           /\ log' = IF isNil THEN SelectSeq(r.t.log, LAMBDA e : e.ev = "pred")
                     ELSE r.t.log
           /\ cont' = r.ok
    /\ UNCHANGED <<orig, heap, ret, out, err, failAt, level, bolw>>

\* -------------------------------------------------- Indent, Indentln
\* Mutant of blockElements: the set without the void elements hr and meta.
blockElementsNotVoid ==
    {"address", "article", "aside", "blockquote", "body",
     "details", "dialog", "dd", "div", "dl", "dt",
     "fieldset", "figcaption", "figure", "footer", "form",
     "h1", "h2", "h3", "h4", "h5", "h6", "head", "header", "html",
     "li", "main", "nav", "ol", "p", "pre",
     "section", "summary", "table", "ul"}

blockElements ==
    {"address", "article", "aside", "blockquote", "body",
     "details", "dialog", "dd", "div", "dl", "dt",
     "fieldset", "figcaption", "figure", "footer", "form",
     "h1", "h2", "h3", "h4", "h5", "h6", "head", "header", "hr", "html",
     "li", "main", "meta", "nav", "ol", "p", "pre",
     "section", "summary", "table", "ul"}

literalChildElements ==
    {"iframe", "noembed", "noframes", "noscript", "plaintext", "script", "style", "xmp"}

voidElements ==
    {"area", "base", "br", "col", "embed", "hr",
     "img", "input", "keygen", "link", "meta",
     "param", "source", "track", "wbr"}

\* html.EscapeString, one character.
EscapeChar(c) ==
    CASE c = "&" -> <<"&", "a", "m", "p", ";">>
      [] c = "<" -> <<"&", "l", "t", ";">>
      [] c = ">" -> <<"&", "g", "t", ";">>
      [] c = "\"" -> <<"&", "#", "3", "4", ";">>
      [] c = "'" -> <<"&", "#", "3", "9", ";">>
      [] OTHER -> <<c>>

RECURSIVE EscapeString(_)
EscapeString(s) ==
    IF s = <<>> THEN <<>> ELSE EscapeChar(Head(s)) \o EscapeString(Tail(s))

RECURSIVE Repeat(_, _)
\* strings.Repeat(s, count).
Repeat(s, count) == IF count <= 0 THEN <<>> ELSE s \o Repeat(s, count - 1)

RECURSIVE RenderAttrs(_)
\* The attributes as html.Render writes them: every value quoted.
RenderAttrs(attrs) ==
    IF attrs = <<>> THEN <<>>
    ELSE <<" ">> \o Head(attrs).Key \o <<"=", "\"">> \o EscapeString(Head(attrs).Val)
         \o <<"\"">> \o RenderAttrs(Tail(attrs))

RECURSIVE Render(_, _)
RECURSIVE RenderChildren(_, _, _)

\* The children from child on as html.Render writes them below an element
\* (raw: the element is one whose text is written unescaped).
RenderChildren(h, child, raw) ==
    IF child = Nil THEN [bytes |-> <<>>, err |-> FALSE]
    ELSE LET r == IF raw /\ h[child].Type = TextNode
                  THEN [bytes |-> h[child].Data, err |-> FALSE]
                  ELSE Render(h, child)
             q == RenderChildren(h, h[child].NextSibling, raw)
         IN [bytes |-> r.bytes \o q.bytes, err |-> r.err \/ q.err]

\* html.Render(w, n): the bytes it writes to w in one Write when it is done,
\* or the error it returns, having written none.
Render(h, n) ==
    CASE h[n].Type = TextNode -> [bytes |-> EscapeString(h[n].Data), err |-> FALSE]
      [] h[n].Type = CommentNode ->
            [bytes |-> <<"<", "!", "-", "-">> \o h[n].Data \o <<"-", "-", ">">>,
             err |-> FALSE]
      [] h[n].Type = DoctypeNode ->
            [bytes |-> <<"<", "!", "D", "O", "C", "T", "Y", "P", "E", " ">>
                       \o h[n].Data \o <<">">>,
             err |-> FALSE]
      [] h[n].Type = RawNode -> [bytes |-> h[n].Data, err |-> FALSE]
      [] h[n].Type = DocumentNode -> RenderChildren(h, h[n].FirstChild, FALSE)
      [] h[n].Type = ElementNode ->
            LET open == <<"<">> \o h[n].Data \o RenderAttrs(h[n].Attr) \o <<">">>
                kids == RenderChildren(h, h[n].FirstChild,
                                       h[n].DataAtom \in literalChildElements)
            IN IF h[n].DataAtom \in voidElements
               THEN [bytes |-> open, err |-> h[n].FirstChild # Nil]
               ELSE [bytes |-> open \o kids.bytes \o <<"<", "/">> \o h[n].Data \o <<">">>,
                     err |-> kids.err]
      [] OTHER -> [bytes |-> <<>>, err |-> TRUE]

\* bufio.NewWriter(w) over a sink that fails its f-th Write, and the
\* bolwriter over it.  stream: the bytes the bufio.Writer took, in order;
\* seen: the value of bol with the length of stream, after every step of the
\* bolwriter; closes: where each closing tag was written.
NewBolwriter(f) ==
    [out |-> <<>>, writes |-> 0, failAt |-> f,
     buf |-> <<>>, berr |-> FALSE,
     bol |-> TRUE,
     stream |-> <<>>, seen |-> {<<0, TRUE>>}, closes |-> {}]

\* What a step returns that did not fail.
Ok(w) == [w |-> w, err |-> FALSE]

\* What a step returns that failed.
Failed(w) == [w |-> w, err |-> TRUE]

\* The end of Flush, r being what the sink's Write returned.
FlushEnd(r) == IF r.err THEN Failed([r.w EXCEPT !.berr = TRUE])
               ELSE Ok([r.w EXCEPT !.buf = <<>>])

\* (*bufio.Writer).Flush.
Flush(b) ==
    IF b.berr THEN Failed(b)
    ELSE IF b.buf = <<>> THEN Ok(b)
    ELSE FlushEnd(Write(b, b.buf))

\* The end of WriteByte, f being what the flush of a full buffer returned.
WriteByteEnd(f, c) ==
    IF f.err THEN f
    ELSE Ok([f.w EXCEPT !.buf = Append(@, c), !.stream = Append(@, c)])

\* (*bufio.Writer).WriteByte.
WriteByte(b, c) ==
    IF b.berr THEN Failed(b)
    ELSE WriteByteEnd(IF Len(b.buf) >= BufSize THEN Flush(b) ELSE Ok(b), c)

Observe(w) == [w EXCEPT !.seen = @ \cup {<<Len(w.stream), w.bol>>}]

\* Mutant of SetBol: bol is set when a newline is written and never cleared.
SetBolNeverCleared(w, b) == Observe([w EXCEPT !.bol = @ \/ (b = "\n")])

\* w.bol = b == '\n'
SetBol(w, b) == Observe([w EXCEPT !.bol = (b = "\n")])

RECURSIVE bolWrite(_, _)
RECURSIVE bolWriteByte(_, _)

\* One turn of the loop of Write, r being what w.w.WriteByte(Head(p))
\* returned, and the turns after it.
bolWriteByte(r, p) ==
    IF r.err THEN Failed(Observe(r.w))
    ELSE bolWrite(SetBol(r.w, Head(p)), Tail(p))

\* (*bolwriter).Write.
bolWrite(w, p) ==
    IF p = <<>> THEN Ok(Observe(w))
    ELSE bolWriteByte(WriteByte(w, Head(p)), p)

\* The end of ensureNewline, r being what w.w.WriteByte('\n') returned.
ensureNewlineEnd(r) ==
    IF r.err THEN Failed(Observe(r.w))
    ELSE Ok(Observe([r.w EXCEPT !.bol = TRUE]))

\* (*bolwriter).ensureNewline.
ensureNewline(w) ==
    IF w.bol THEN Ok(Observe(w))
    ELSE ensureNewlineEnd(WriteByte(w, "\n"))

\* indent is modelled in two parts.  indent(h, n, lvl) is the sequence of
\* calls on the bolwriter that the code makes for node n when none of them
\* fails; which calls these are depends on the tree only, the tests of w.bol
\* being part of the calls.  Run makes the calls in order on a bolwriter and
\* stops at the first that fails, as each `if err != nil { return err }`
\* does.
Call(name, bytes) ==
    [call |-> name, bytes |-> bytes, node |-> Nil, level |-> 0, block |-> FALSE]

\* fmt.Fprint(w, s), fmt.Fprintf(w, ...): one Write of the formatted bytes.
Fprint(s) == <<Call("Write", s)>>

\* if w.bol { fmt.Fprint(w, prefix) }
prefixAtBol(prefix) == <<Call("WriteIfBol", prefix)>>

\* return fmt.Errorf(...), or the error html.Render returned.
ReturnErr == <<Call("error", <<>>)>>

\* html.Render(w, n) on the bolwriter.
RenderTo(h, n) == IF Render(h, n).err THEN ReturnErr ELSE Fprint(Render(h, n).bytes)

\* A point of closeTag that closes records: name is "children end" or
\* "closing tag".
Point(name, n, lvl, isBlock) ==
    [call |-> name, bytes |-> <<>>, node |-> n, level |-> lvl, block |-> isBlock]

RECURSIVE writeAttrs(_)
\* The loop of indent over n.Attr.
writeAttrs(attrs) ==
    IF attrs = <<>> THEN <<>>
    ELSE Fprint(<<" ">> \o Head(attrs).Key)
         \o (IF Head(attrs).Val = <<>> THEN <<>>
             ELSE Fprint(<<"=", "\"">> \o EscapeString(Head(attrs).Val) \o <<"\"">>))
         \o writeAttrs(Tail(attrs))

\* Mutant of closeTag: the prefix is written for a block element and then
\* once more whatever bol is.
closeTagPrefixTwice(n, data, prefix, isBlock, lvl) ==
    <<Point("children end", n, lvl, isBlock)>>
    \o (IF isBlock THEN <<Call("ensureNewline", <<>>)>> \o Fprint(prefix) ELSE <<>>)
    \o Fprint(prefix)
    \o <<Point("closing tag", n, lvl, isBlock)>>
    \o Fprint(<<"<", "/">> \o data \o <<">">>)

\* The end of indent's ElementNode case: the prefix of the closing tag and
\* the closing tag.
closeTag(n, data, prefix, isBlock, lvl) ==
    <<Point("children end", n, lvl, isBlock)>>
    \o (IF isBlock THEN <<Call("ensureNewline", <<>>)>> \o Fprint(prefix) ELSE <<>>)
    \o prefixAtBol(prefix)
    \o <<Point("closing tag", n, lvl, isBlock)>>
    \o Fprint(<<"<", "/">> \o data \o <<">">>)

RECURSIVE indent(_, _, _)
RECURSIVE indentDocumentChildren(_, _, _)
RECURSIVE indentElementChildren(_, _, _, _)

\* The loop of the DocumentNode case over the children from child on.
indentDocumentChildren(h, child, lvl) ==
    IF child = Nil THEN <<>>
    ELSE indent(h, child, lvl) \o indentDocumentChildren(h, h[child].NextSibling, lvl)

\* The loop of the ElementNode case over the children from child on.
indentElementChildren(h, child, lvl, literal) ==
    IF child = Nil THEN <<>>
    ELSE (IF literal
          THEN IF h[child].Type = TextNode THEN Fprint(h[child].Data)
               ELSE RenderTo(h, child)
          ELSE indent(h, child, lvl + 1))
         \o indentElementChildren(h, h[child].NextSibling, lvl, literal)

\* The ElementNode case of indent.
indentElement(h, n, lvl, prefix, isBlock) ==
    (IF isBlock THEN <<Call("ensureNewline", <<>>)>> ELSE <<>>)
    \o prefixAtBol(prefix)
    \o Fprint(<<"<">> \o h[n].Data)
    \o writeAttrs(h[n].Attr)
    \o Fprint(<<">">>)
    \o (IF isBlock THEN Fprint(<<"\n">>) ELSE <<>>)
    \o (IF h[n].DataAtom \in voidElements THEN <<>>
        ELSE indentElementChildren(h, h[n].FirstChild, lvl,
                                   h[n].DataAtom \in literalChildElements)
             \o closeTag(n, h[n].Data, prefix, isBlock, lvl))

indent(h, n, lvl) ==
    CASE h[n].Type = ErrorNode -> ReturnErr
      [] h[n].Type = TextNode ->
            prefixAtBol(Repeat(<<" ", " ">>, lvl)) \o RenderTo(h, n)
      [] h[n].Type = DoctypeNode -> RenderTo(h, n) \o <<Call("ensureNewline", <<>>)>>
      [] h[n].Type = DocumentNode -> indentDocumentChildren(h, h[n].FirstChild, lvl)
      [] h[n].Type = ElementNode ->
            indentElement(h, n, lvl, Repeat(<<" ", " ">>, lvl),
                          h[n].DataAtom \in blockElements)
      [] h[n].Type = CommentNode ->
            prefixAtBol(Repeat(<<" ", " ">>, lvl)) \o RenderTo(h, n)
      [] h[n].Type = RawNode -> Fprint(h[n].Data)
      [] OTHER -> ReturnErr

\* One call on the bolwriter.  closes gets a record where the children of an
\* element ended (kidsEnd, and bol at that point), and the record gets the
\* place where the closing tag starts (tagAt).
Step(w, c) ==
    CASE c.call = "Write" -> bolWrite(w, c.bytes)
      [] c.call = "WriteIfBol" -> IF w.bol THEN bolWrite(w, c.bytes) ELSE Ok(w)
      [] c.call = "ensureNewline" -> ensureNewline(w)
      [] c.call = "error" -> Failed(w)
      [] c.call = "children end" ->
            Ok([w EXCEPT !.closes = @ \cup
                  {[node |-> c.node, level |-> c.level, block |-> c.block,
                    bol |-> w.bol, kidsEnd |-> Len(w.stream), tagAt |-> -1]}])
      [] c.call = "closing tag" ->
            Ok([w EXCEPT !.closes =
                  {IF x.node = c.node THEN [x EXCEPT !.tagAt = Len(w.stream)] ELSE x :
                     x \in @}])

RECURSIVE Run(_, _)
RECURSIVE RunRest(_, _)

\* The calls after the first, r being what the first returned.
RunRest(r, calls) == IF r.err THEN r ELSE Run(r.w, Tail(calls))

\* The calls made in order on w, up to the first that fails.
Run(w, calls) ==
    IF calls = <<>> THEN Ok(w) ELSE RunRest(Step(w, Head(calls)), calls)

\* The deferred bw.Flush(), whose result is dropped: r is what indent
\* returned and last what indentHelper returns.
indentHelperDefer(r, last) ==
    [w |-> Flush(last.w).w, err |-> last.err,
     rendered |-> r.w.stream, renderErr |-> r.err]

\* The end of indentHelper, r being what indent returned: the newline
\* Indentln asks for.
indentHelperEnd(r, newline) ==
    indentHelperDefer(r, IF r.err \/ ~newline \/ r.w.bol THEN r ELSE WriteByte(r.w, "\n"))

\* indentHelper.  rendered: the stream as indent left it; renderErr: what
\* indent returned.
indentHelper(h, f, n, lvl, newline) ==
    indentHelperEnd(Run(NewBolwriter(f), indent(h, n, lvl)), newline)

IndentAction(name, newline) ==
    /\ op = ""
    /\ \E n \in {1}, l \in 0..MaxLevel, f \in 0..MaxFailAt :
        LET r == indentHelper(heap, f, n, l, newline)
        IN /\ op' = name
           /\ start' = n
           /\ level' = l
           /\ failAt' = f
           /\ out' = r.w.out
           /\ err' = r.err
           /\ bolw' = [r.w EXCEPT !.out = <<>>] @@ [rendered |-> r.rendered,
                                                    renderErr |-> r.renderErr]
    /\ UNCHANGED <<orig, heap, P, stopAt, ret, log, cont, predNil, panicked>>

\* Indent(w, n, level) on a sink that fails its f-th Write (f = 0: never).
\* n is the root of the tree: indent reads n and the nodes below it only.
DoIndent == IndentAction("Indent", FALSE)

\* Indentln(w, n, level) on such a sink.
DoIndentln == IndentAction("Indentln", TRUE)

\* ------------------------------------------------- reference definitions
\* What the claims are stated against, read off the caller's tree (orig) by
\* its Parent links and the document-order numbering, not by the traversals.
RECURSIVE PathUp(_)
\* n and its ancestors.
PathUp(n) == IF n = Nil THEN {} ELSE {n} \cup PathUp(orig[n].Parent)

\* The nodes of the subtree rooted at s.
Sub(s) == {n \in Nodes : s \in PathUp(n)}

ProperDesc(s) == Sub(s) \ {s}

IsText(n) == orig[n].Type = TextNode

\* The nodes of the subtree rooted at s that are not below a Text node of
\* that subtree.
Reach(s) == {n \in Sub(s) : ~\E a \in PathUp(n) \ {n} : a \in Sub(s) /\ IsText(a)}

\* The Node-model invariant: a Text node has no children.  Under it
\* Reach(s) = Sub(s).
TextIsLeaf == \A n \in Nodes : IsText(n) => orig[n].FirstChild = Nil

RECURSIVE SortedSeq(_)
\* The members of S in ascending order: for a set of nodes, preorder.
SortedSeq(S) == IF S = {} THEN <<>> ELSE <<SetMin(S)>> \o SortedSeq(S \ {SetMin(S)})

IsYield(e) == e.ev = "yield"
IsPred(e) == e.ev = "pred"
NodeOf(l) == [i \in 1..Len(l) |-> l[i].node]

\* The nodes yielded, and the nodes pred was called on, in call order.
Yielded == NodeOf(SelectSeq(log, IsYield))
Tested == NodeOf(SelectSeq(log, IsPred))

Range(f) == {f[i] : i \in DOMAIN f}

NonText(n) == ~IsText(n)

\* ----------------------------------------------------------------- claims
\* C1: Find(T, P) returns a node that satisfies P and that no node before it
\* in preorder (among the nodes of T's subtree the search covers: all of
\* them when Text nodes are leaves) satisfies; it returns nil exactly when
\* no node it called P on satisfies P, having then called P on every one.
C1_FindFirstMatch ==
    op = "Find" =>
        /\ ret # Nil => /\ ret \in P
                        /\ ret \in Reach(start)
                        /\ \A m \in Reach(start) : m < ret => m \notin P
        /\ (ret = Nil) <=> (\A i \in 1..Len(log) : ~log[i].ret)
        /\ ret = Nil => Tested = SortedSeq(Reach(start))
        /\ TextIsLeaf => (ret = Nil <=> Sub(start) \cap P = {})

\* A Find that passes over non-matching nodes, returns a node below the root
\* and leaves a later match behind.
C1_Witness ==
    /\ op = "Find"
    /\ ret # Nil
    /\ orig[ret].Parent # start
    /\ ret # start
    /\ TextIsLeaf
    /\ \E m \in Sub(start) \cap P : m > ret

\* C2: every node FindAll or FindAllChildren yields satisfies P, no yielded
\* node is a proper descendant of another, and nothing below a yielded node
\* is descended into (pred is called on none of its descendants).
C2_FindAllNoDescend ==
    op \in {"FindAll", "FindAllChildren"} =>
        /\ \A y \in Range(Yielded) : y \in P /\ y \in Sub(start)
        /\ \A y \in Range(Yielded), z \in Range(Yielded) : z \notin ProperDesc(y)
        /\ \A y \in Range(Yielded), z \in Range(Tested) : z \notin ProperDesc(y)
        /\ op = "FindAllChildren" => start \notin Range(Yielded) \cup Range(Tested)
        /\ stopAt = 0 => \A m \in Range(Tested) : m \in P => m \in Range(Yielded)

\* A yielded node with a matching node below it, and a second yield after it.
C2_Witness ==
    /\ op \in {"FindAll", "FindAllChildren"}
    /\ Len(Yielded) >= 2
    /\ ProperDesc(Yielded[1]) \cap P # {}

\* C3: Walk(T), T not a Text node, consumed to the end, yields every non-Text
\* node of T's subtree (that is not below a Text node: every one when Text
\* nodes are leaves) exactly once, T first, in preorder.
C3_WalkPreorder ==
    (op = "Walk" /\ stopAt = 0 /\ NonText(start)) =>
        /\ SelectSeq(Yielded, NonText) = SortedSeq({n \in Reach(start) : NonText(n)})
        /\ Yielded[1] = start
        /\ TextIsLeaf =>
              SelectSeq(Yielded, NonText) = SortedSeq({n \in Sub(start) : NonText(n)})

\* A full Walk of a well-formed tree with a Text node in it and a non-Text
\* node after that.
C3_Witness ==
    /\ op = "Walk" /\ stopAt = 0 /\ NonText(start)
    /\ TextIsLeaf
    /\ \E x \in Sub(start), n \in Sub(start) : IsText(x) /\ NonText(n) /\ x < n
    /\ Len(Yielded) >= 2

\* C4: Walk yields a node before testing its kind: a full Walk yields every
\* node it reaches, Text nodes included, each in its preorder position.
C4_WalkYieldsText ==
    (op = "Walk" /\ stopAt = 0) => Yielded = SortedSeq(Reach(start))

\* C5: once yield has returned false, Walk, FindAll and FindAllChildren call
\* neither yield nor pred again, and the outermost call returns false
\* whatever the depth of the call that saw it.
C5_StopIsFinal ==
    op \in {"Walk", "FindAll", "FindAllChildren"} =>
        /\ \A i \in 1..Len(log) : (IsYield(log[i]) /\ ~log[i].ret) => i = Len(log)
        /\ cont <=> ~\E i \in 1..Len(log) : IsYield(log[i]) /\ ~log[i].ret
        /\ stopAt # 0 => Len(Yielded) <= stopAt

\* The consumer stops on a node below a child of T while a matching node the
\* enumeration would still have yielded remains.
C5_Witness ==
    /\ op = "FindAll"
    /\ ~cont
    /\ orig[log[Len(log)].node].Parent \notin {Nil, start}
    /\ log[Len(log)].node # start
    /\ TextIsLeaf
    /\ \E n \in Sub(start) \cap P :
          n > log[Len(log)].node /\ n \notin Sub(log[Len(log)].node)

\* ------------------------------------------ reference definitions, Prune
\* The nodes of the subtree rooted at s with no node satisfying P on the path
\* from s to them, both ends included.
Kept(s) == {n \in Sub(s) : PathUp(n) \cap Sub(s) \cap P = {}}

Content(r) == [Type |-> r.Type, DataAtom |-> r.DataAtom, Data |-> r.Data, Attr |-> r.Attr]

RECURSIVE Expected(_, _)
\* The tree Prune is to return for node n of the caller's tree: n's content
\* over the trees of its kept children, in sibling order.
Expected(s, n) ==
    LET kids == SortedSeq({c \in Kept(s) : orig[c].Parent = n})
    IN [node |-> Content(orig[n]),
        kids |-> [i \in 1..Len(kids) |-> Expected(s, kids[i])]]

RECURSIVE Chain(_, _, _, _)
\* The nodes met from n on following link f, at most fuel of them.
Chain(h, f, n, fuel) ==
    IF n = Nil \/ fuel = 0 THEN <<>>
    ELSE <<n>> \o Chain(h, f, h[n][f], fuel - 1)

Reverse(q) == [i \in 1..Len(q) |-> q[Len(q) + 1 - i]]

RECURSIVE Shape(_, _)
\* The tree found in memory h at node n, read forwards: FirstChild, then
\* NextSibling.
Shape(h, n) ==
    LET kids == Chain(h, "NextSibling", h[n].FirstChild, Len(h))
    IN [node |-> Content(h[n]),
        kids |-> [i \in 1..Len(kids) |-> Shape(h, kids[i])]]

RECURSIVE ShapeBack(_, _)
\* The same read backwards: LastChild, then PrevSibling.
ShapeBack(h, n) ==
    LET kids == Reverse(Chain(h, "PrevSibling", h[n].LastChild, Len(h)))
    IN [node |-> Content(h[n]),
        kids |-> [i \in 1..Len(kids) |-> ShapeBack(h, kids[i])]]

\* The nodes Prune allocated.
Copies == (Len(orig) + 1)..Len(heap)

Links == {"Parent", "FirstChild", "LastChild", "PrevSibling", "NextSibling"}

\* C6: Prune(T, P) is nil iff P holds of T; otherwise it is a copy of exactly
\* the nodes of T with no node satisfying P on the path from T to them, each
\* with the kind, tag, attributes and data of its original, the kept
\* children of each in their sibling order.
C6_PruneKeepsUnmatched ==
    op = "Prune" =>
        /\ (ret = Nil) <=> (start \in P)
        /\ ret # Nil => /\ ret \in Copies
                        /\ Shape(heap, ret) = Expected(start, start)
                        /\ Cardinality(Copies) = Cardinality(Kept(start))
        /\ ret = Nil => Copies = {}

\* A Prune that drops a matching child together with a non-matching node
\* below it, and keeps a sibling after it.
C6_Witness ==
    /\ op = "Prune"
    /\ ret # Nil
    /\ \E a \in Sub(start) \cap P, b \in Sub(start), c \in Kept(start) :
          /\ orig[a].Parent = start
          /\ orig[b].Parent = a /\ b \notin P
          /\ orig[c].Parent = start /\ c > a

\* C7: no link (Parent, FirstChild, LastChild, PrevSibling, NextSibling) of
\* a node of the tree Prune returns, its root included, points at a node of
\* the caller's tree.
C7_PruneIndependent ==
    op = "Prune" => \A c \in Copies, f \in Links : heap[c][f] \notin Nodes

\* C8: Prune writes to no node of the caller's tree: afterwards every field
\* and link of every one of them is as it was.
C8_PruneLeavesSource ==
    op = "Prune" => /\ Len(heap) >= Len(orig)
                    /\ SubSeq(heap, 1, Len(orig)) = orig

\* A Prune under which a node loses some of its children and keeps others.
C8_Witness ==
    /\ op = "Prune"
    /\ ret # Nil
    /\ \E n \in Kept(start), a \in Nodes, b \in Nodes :
          /\ orig[a].Parent = n /\ a \in P
          /\ orig[b].Parent = n /\ b \notin P
    /\ SubSeq(heap, 1, Len(orig)) = orig

\* C9: in the tree Prune returns every node's children form a consistent
\* doubly linked list of exactly its kept children: the first has no
\* PrevSibling, the last no NextSibling, each one's PrevSibling and
\* NextSibling are its neighbours in the list, NextSibling from FirstChild
\* ends at LastChild, and both are nil when no child is kept.
C9_PruneChildChains ==
    (op = "Prune" /\ ret # Nil) =>
        /\ Shape(heap, ret) = Expected(start, start)
        /\ ShapeBack(heap, ret) = Expected(start, start)
        /\ \A c \in Copies :
            LET fwd == Chain(heap, "NextSibling", heap[c].FirstChild, Len(heap) + 1)
            IN /\ (heap[c].FirstChild = Nil) <=> (heap[c].LastChild = Nil)
               /\ Len(fwd) <= Len(heap)
               /\ \A i \in 1..Len(fwd) :
                    /\ fwd[i] \in Copies
                    /\ heap[fwd[i]].PrevSibling = (IF i = 1 THEN Nil ELSE fwd[i - 1])
                    /\ heap[fwd[i]].NextSibling = (IF i = Len(fwd) THEN Nil ELSE fwd[i + 1])
               /\ fwd # <<>> => fwd[Len(fwd)] = heap[c].LastChild

\* A Prune that drops the middle one of three children, so that the two kept
\* copies become neighbours, and one that leaves a node with no child.
C9_Witness ==
    /\ op = "Prune"
    /\ ret # Nil
    /\ \E a \in Kept(start), b \in P, c \in Kept(start) :
          /\ orig[a].Parent = start /\ orig[b].Parent = start /\ orig[c].Parent = start
          /\ a < b /\ b < c
    /\ Len(Chain(heap, "NextSibling", heap[ret].FirstChild, Len(heap))) = 2
    /\ \E c \in Copies : heap[c].FirstChild = Nil

\* -------------------------------------- reference definitions, WriteText
IsEl(n, atoms) == orig[n].Type = ElementNode /\ orig[n].DataAtom \in atoms

\* n lies below a br, script or style element of the subtree rooted at s.
Muted(s, n) ==
    \E a \in PathUp(n) \ {n} : a \in Sub(s) /\ IsEl(a, {AtomBr, AtomScript, AtomStyle})

\* The texts of the model with their entities decoded, written out.
Decoded(d) ==
    CASE d = EntityData -> <<"&", "l", "t", ";", "<">>
      [] d = <<"x">> -> <<"x">>

\* What node n of the subtree rooted at s adds to the text of s.
Contribution(s, n) ==
    IF Muted(s, n) THEN <<>>
    ELSE IF IsText(n) THEN Decoded(orig[n].Data)
    ELSE IF IsEl(n, {AtomBr}) THEN <<"\n">>
    ELSE <<>>

RECURSIVE ConcatContributions(_, _)
\* The contributions of the nodes q of the subtree rooted at s, in order.
ConcatContributions(s, q) ==
    IF q = <<>> THEN <<>>
    ELSE Contribution(s, Head(q)) \o ConcatContributions(s, Tail(q))

ExpectedText(s) == ConcatContributions(s, SortedSeq(Sub(s)))

\* C10: what WriteText writes (when no Write fails) and what Text returns is
\* the concatenation, in document order, of the entity-decoded data of each
\* Text node and one newline for each br element, with nothing from below a
\* br and nothing from a script or style element or from below it.
C10_TextIsConcatenation ==
    (op \in {"WriteText", "Text"} /\ ~err) => out = ExpectedText(start)

\* Text of an element holding a text with entities and then a br: the text
\* decoded, then the newline.
C10_Witness ==
    /\ op = "Text"
    /\ ~err
    /\ \E x \in Sub(start), b \in Sub(start) :
          /\ IsText(x) /\ orig[x].Data = EntityData /\ orig[x].Parent = start
          /\ IsEl(b, {AtomBr}) /\ orig[b].Parent = start
          /\ x < b
    /\ out = <<"&", "l", "t", ";", "<", "\n">>

IndentOps == {"Indent", "Indentln"}

\* One of the writes to the sink failed.
SinkFailed == bolw.berr

\* C11: when a write to the sink fails during Indent or Indentln, the call
\* returns an error, whether the failing write is one made while the tree is
\* rendered or the one made by the final flush.
C11_SinkFailureReported == op \in IndentOps /\ SinkFailed => err

\* C12: when Indentln returns without error, what was written to the sink
\* ends with a newline.
C12_IndentlnEndsWithNewline ==
    op = "Indentln" /\ ~err => out # <<>> /\ out[Len(out)] = "\n"

\* C13 as stated: the block, void and literal-content sets are pairwise
\* disjoint, so that no element of a tree is in two of them.
C13_PairwiseDisjoint ==
    /\ \A n \in Nodes :
          Cardinality({S \in {blockElements, voidElements, literalChildElements} :
                          orig[n].DataAtom \in S}) <= 1
    /\ blockElements \cap voidElements = {}
    /\ blockElements \cap literalChildElements = {}
    /\ voidElements \cap literalChildElements = {}

\* C13: the literal-content set is disjoint from the block set and from the
\* void set; the block set and the void set share hr and meta, and such an
\* element is rendered as both: on a line of its own, a newline after its
\* tag, with no children and no closing tag.
C13_LiteralDisjointBlockVoidShare ==
    /\ literalChildElements \cap blockElements = {}
    /\ literalChildElements \cap voidElements = {}
    /\ blockElements \cap voidElements = {"hr", "meta"}
    /\ op \in IndentOps /\ orig[start].DataAtom = AtomHr /\ ~SinkFailed
         => bolw.rendered = Repeat(<<" ", " ">>, level) \o <<"<", "h", "r", ">", "\n">>

C13_Witness ==
    /\ op = "Indent"
    /\ orig[start].DataAtom = AtomHr
    /\ orig[start].FirstChild # Nil
    /\ level = 1
    /\ failAt = 0
    /\ ~err
    /\ out = <<" ", " ", "<", "h", "r", ">", "\n">>

\* C16: at every point of the render of Indent and Indentln, bol is true
\* exactly when no byte has been written yet or the byte written last is a
\* newline; the points are those after each byte of a Write of the
\* bolwriter, after each Write, empty ones included, and after each
\* ensureNewline.
C16_BolTracksStream ==
    op \in IndentOps =>
        \A s \in bolw.seen :
            s[2] <=> (s[1] = 0 \/ bolw.rendered[s[1]] = "\n")

\* <p k="&#34;"> with the text "<" below it, by Indentln: bol is false in
\* the tag, true after its newline, false after the text, and ensureNewline
\* makes it true again.
C16_Witness ==
    /\ op = "Indentln"
    /\ failAt = 0
    /\ ~err
    /\ level = 0
    /\ out = <<"<", "p", " ", "k", "=", "\"", "&", "#", "3", "4", ";", "\"", ">", "\n",
               " ", " ", "&", "l", "t", ";", "\n", "<", "/", "p", ">", "\n">>
    /\ {<<13, FALSE>>, <<14, TRUE>>, <<20, FALSE>>, <<21, TRUE>>, <<25, FALSE>>}
          \subseteq bolw.seen

\* The bytes i+1..j of the render are spaces.
Spaces(i, j) == \A k \in (i + 1)..j : bolw.rendered[k] = " "

\* C17: the closing tag of a block element rendered at level L starts a line
\* and has exactly 2*L spaces before it, the prefix written once; before the
\* closing tag of an element that is not a block the prefix is written
\* exactly when the children left the stream at the beginning of a line.
C17_ClosingTagPrefix ==
    op \in IndentOps =>
        \A c \in {x \in bolw.closes : x.tagAt >= 0} :
            /\ c.block =>
                  /\ c.tagAt = c.kidsEnd + (IF c.bol THEN 0 ELSE 1) + 2 * c.level
                  /\ Spaces(c.tagAt - 2 * c.level, c.tagAt)
                  /\ bolw.rendered[c.tagAt - 2 * c.level] = "\n"
            /\ ~c.block =>
                  /\ c.tagAt = c.kidsEnd + (IF c.bol THEN 2 * c.level ELSE 0)
                  /\ Spaces(c.kidsEnd, c.tagAt)
            /\ Len(bolw.rendered) >= c.tagAt + 2 =>
                  /\ bolw.rendered[c.tagAt + 1] = "<"
                  /\ bolw.rendered[c.tagAt + 2] = "/"

\* A block element at level 1 whose child left the stream in the middle of
\* a line.
C17_Witness ==
    /\ op \in IndentOps
    /\ failAt = 0
    /\ ~err
    /\ \E c \in bolw.closes :
          /\ c.block
          /\ c.level = 1
          /\ ~c.bol
          /\ orig[c.node].FirstChild # Nil

\* The Element children of n, in sibling order.
ElementChildren(n) ==
    SortedSeq({c \in Nodes : orig[c].Parent = n /\ orig[c].Type = ElementNode})

\* C14: FindEl and FindAllChildEls take a nil pred as one that every Element
\* passes: FindEl(n, nil) is n when n is an Element, and FindAllChildEls(n,
\* nil), run to its end, yields the Element children of n in sibling order.
C14_NilPredMatchesEveryElement ==
    predNil =>
        /\ ~panicked
        /\ op = "FindEl" /\ orig[start].Type = ElementNode => ret = start
        /\ op = "FindAllChildEls" /\ ~IsText(start) => Yielded = ElementChildren(start)

\* C15: Find, Walk, FindAll, FindAllChildren and Prune take a Text node as
\* a leaf even when it has children: no node below a Text node is tested
\* with pred or yielded, and Prune copies none.
C15_TextIsALeaf ==
    op \in {"Find", "Walk", "FindAll", "FindAllChildren", "Prune"} =>
        /\ \A i \in 1..Len(log) : log[i].node \in Reach(start)
        /\ Cardinality(Copies) <= Cardinality(Reach(start))

Next ==
    \/ DoFind
    \/ DoWalk
    \/ DoFindAll
    \/ DoFindAllChildren
    \/ DoPrune

Spec == Init /\ [][Next]_vars

NextText ==
    \/ DoWriteText
    \/ DoText

SpecText == InitText /\ [][NextText]_vars

NextEl ==
    \/ DoFindEl
    \/ DoFindAllChildEls

SpecEl == Init /\ [][NextEl]_vars

NextIndent ==
    \/ DoIndent
    \/ DoIndentln

SpecIndent == InitIndent /\ [][NextIndent]_vars

====
